---------------------------- MODULE Spec2Model ----------------------------
(***************************************************************************)
(* Smart Room SCADA controller (Smart_Room_SCADA.ino): the sampling /      *)
(* decision / actuation loop, the circular telemetry store and the HTTP    *)
(* command handlers, as a state machine.                                   *)
(*                                                                         *)
(* Floats are fixed-point numbers counted in hundredths, with a separate   *)
(* not-a-number value: [nan |-> FALSE, v |-> 2490] is 24.90.  Strings that *)
(* the code parses or measures are sequences of one-character strings.     *)
(* An unsigned long is a pair of 16-bit limbs, [hi, lo], so that the       *)
(* arithmetic modulo 2^32 is done as the machine does it.                  *)
(***************************************************************************)
EXTENDS Integers, Sequences, FiniteSets, TLC

VARIABLES
    pc,               \* "boot" before setup() has run, "loop" afterwards
    fanOn, lightOn, lampOn,
    autoFanEnabled, tempThreshold,
    scheduleEnabled, scheduleHour, scheduleMinute,
    temp, press, heap, rssi,
    logs, lastMinute, lastUpdate, lastHistory,
    history, historyIndex, historyCount,
    pins,             \* level last written to fanPin, lightPin, lampPin
    lcd,              \* the two lines last printed on the display
    request,          \* the request the server last parsed: its uri and arguments
    response,         \* what server.send() last sent
    millis, rtc,      \* the millisecond counter; the RTC (unix seconds, below 2^31)
    newTemp, newPress,\* the readings taken by the last tick
    appended,         \* history variable: every sample appended, in order
    minuteObs,        \* history variable: ticks and schedule fires of the current minute
    elapsed,          \* history variable: the time really passed since lastUpdate
                      \* and since lastHistory were last assigned
    reqLeft, stepsLeft \* requests and time steps the exploration still allows

progVars == <<fanOn, lightOn, lampOn, autoFanEnabled, tempThreshold,
              scheduleEnabled, scheduleHour, scheduleMinute, temp, press, heap,
              rssi, logs, lastMinute, lastUpdate, lastHistory, history,
              historyIndex, historyCount>>
vars == <<pc, progVars, pins, lcd, request, response, millis, rtc, newTemp, newPress,
          appended, minuteObs, elapsed, reqLeft, stepsLeft>>

----------------------------------------------------------------------------
(* Program constants *)

\* The store's capacity.  The source sets 100; the ring is checked at the
\* reduced capacity HistoryCap so that wraparound is reached.
HistoryCap == 3
HISTORY_SIZE == HistoryCap
UPDATE_INTERVAL == 1000
HISTORY_INTERVAL == 60000
LOG_LIMIT == 1000
LOW == "LOW"
HIGH == "HIGH"
RELAY_ON == LOW

(* Bounds of the exploration: requests served and time steps taken *)
MaxReq == 1
MaxElapse == 2
AutoReq == 2
AutoElapse == 2
SchedReq == 2
SchedElapse == 3
RingReq == 1
ControlReq == 2
ControlElapse == 1
OrderReq == 2
OrderElapse == 2
TimerReq == 1
TimerElapse == 4
WrapReq == 1
WrapElapse == 4
PrecReq == 3
PrecElapse == 2
LogReq == 4
LogElapse == 1
StickyReq == 2
StickyElapse == 3
RingElapse == HistoryCap + 2

----------------------------------------------------------------------------
(* Floats *)

NaN == [nan |-> TRUE, v |-> 0]
F(v) == [nan |-> FALSE, v |-> v]
isnan(x) == x.nan
\* IEEE comparison: false as soon as one side is not a number
FGe(a, b) == ~a.nan /\ ~b.nan /\ a.v >= b.v
\* x / 100.0
FDiv100(x) == IF x.nan THEN NaN ELSE F(x.v \div 100)
\* Arduino's round(x): (x) >= 0 ? (long)((x) + 0.5) : (long)((x) - 0.5)
Round(x) == IF x.v >= 0 THEN (x.v + 50) \div 100 ELSE -((50 - x.v) \div 100)

(* unsigned long arithmetic, modulo 2^32 *)
Limb == 2^16
\* the unsigned long of a natural number below 2^31
U32(n) == [hi |-> (n \div Limb) % Limb, lo |-> n % Limb]
Add32(a, b) ==
    LET lo == a.lo + b.lo
    IN  [hi |-> (a.hi + b.hi + lo \div Limb) % Limb, lo |-> lo % Limb]
\* as Sub32, yielding 0 instead of wrapping when a is below b
Sub32_saturating(a, b) ==
    IF a.hi > b.hi \/ (a.hi = b.hi /\ a.lo >= b.lo)
    THEN [hi |-> a.hi - b.hi - (IF a.lo < b.lo THEN 1 ELSE 0),
          lo |-> (a.lo - b.lo + Limb) % Limb]
    ELSE [hi |-> 0, lo |-> 0]

Sub32(a, b) ==
    LET borrow == IF a.lo < b.lo THEN 1 ELSE 0
    IN  [hi |-> (a.hi - b.hi - borrow + Limb) % Limb,
         lo |-> (a.lo - b.lo + Limb) % Limb]
\* a >= b on unsigned longs
Ge32(a, b) == a.hi > b.hi \/ (a.hi = b.hi /\ a.lo >= b.lo)
\* a / 1000 on an unsigned long (65536 = 65 * 1000 + 536)
Div1000(a) == a.hi * 65 + (a.hi * 536 + a.lo) \div 1000

\* A span of real time, [s |-> whole seconds, ms |-> 0..999], which can hold
\* more than 2^32 milliseconds
Span(ms) == [s |-> ms \div 1000, ms |-> ms % 1000]
SpanAdd(t, ms) == [s |-> t.s + (t.ms + ms) \div 1000, ms |-> (t.ms + ms) % 1000]
\* the span is at least n milliseconds
SpanAtLeast(t, n) == t.s > n \div 1000 \/ (t.s = n \div 1000 /\ t.ms >= n % 1000)
\* the span is shorter than 2^32 ms = 4294967.296 s
SpanBelowWrap(t) == t.s < 4294967 \/ (t.s = 4294967 /\ t.ms < 296)

\* C's % on int: the sign follows the dividend
CRem(a, b) == IF a >= 0 THEN a % b ELSE -((-a) % b)

----------------------------------------------------------------------------
(* Strings: server.arg() values and their conversions *)

sOn == <<"o", "n">>
sOff == <<"o", "f", "f">>
sTrue == <<"t", "r", "u", "e">>
sFalse == <<"f", "a", "l", "s", "e">>
sFan == <<"f", "a", "n">>
sLight == <<"l", "i", "g", "h", "t">>
sLamp == <<"l", "a", "m", "p">>
sAuto == <<"a", "u", "t", "o">>
sSchedule == <<"s", "c", "h", "e", "d", "u", "l", "e">>
sEmpty == <<>>

IsDigit(c) == c \in {"0", "1", "2", "3", "4", "5", "6", "7", "8", "9"}
DigitVal(c) ==
    CASE c = "0" -> 0 [] c = "1" -> 1 [] c = "2" -> 2 [] c = "3" -> 3
      [] c = "4" -> 4 [] c = "5" -> 5 [] c = "6" -> 6 [] c = "7" -> 7
      [] c = "8" -> 8 [] c = "9" -> 9

\* the index of the first character of s at or after i that is not a blank
RECURSIVE SkipBlanks(_, _)
SkipBlanks(s, i) ==
    IF i <= Len(s) /\ s[i] = " " THEN SkipBlanks(s, i + 1) ELSE i

\* the digits of s from i on: [val |-> their value, next |-> where they stop,
\* n |-> how many there are]
RECURSIVE Digits(_, _, _, _)
Digits(s, i, acc, n) ==
    IF i <= Len(s) /\ IsDigit(s[i])
    THEN Digits(s, i + 1, 10 * acc + DigitVal(s[i]), n + 1)
    ELSE [val |-> acc, next |-> i, n |-> n]

\* String::toInt(): atol() - blanks, an optional sign, the leading digits;
\* 0 when there is no digit
toInt(s) ==
    LET i == SkipBlanks(s, 1)
        neg == i <= Len(s) /\ s[i] = "-"
        j == IF i <= Len(s) /\ s[i] \in {"-", "+"} THEN i + 1 ELSE i
        d == Digits(s, j, 0, 0)
    IN  IF neg THEN -d.val ELSE d.val

\* String::toFloat(): atof() - blanks, an optional sign, "nan", or digits with
\* an optional fraction; 0 when there is no number.  The value is kept to
\* hundredths (the inputs of the model carry at most two decimals).
toFloat(s) ==
    LET i == SkipBlanks(s, 1)
        neg == i <= Len(s) /\ s[i] = "-"
        j == IF i <= Len(s) /\ s[i] \in {"-", "+"} THEN i + 1 ELSE i
        isNan == j + 2 <= Len(s) /\ SubSeq(s, j, j + 2) = <<"n", "a", "n">>
        ip == Digits(s, j, 0, 0)
        hasDot == ip.next <= Len(s) /\ s[ip.next] = "."
        fp == IF hasDot THEN Digits(s, ip.next + 1, 0, 0)
                        ELSE [val |-> 0, next |-> ip.next, n |-> 0]
        frac == CASE fp.n = 0 -> 0
                  [] fp.n = 1 -> 10 * fp.val
                  [] fp.n = 2 -> fp.val
                  [] OTHER -> fp.val \div (10 ^ (fp.n - 2))
        mag == 100 * ip.val + frac
    IN  IF isNan THEN NaN
        ELSE IF ip.n = 0 /\ fp.n = 0 THEN F(0)
        ELSE F(IF neg THEN -mag ELSE mag)

\* the number of characters of String(n) for an int n
RECURSIVE NatLen(_)
NatLen(n) == IF n < 10 THEN 1 ELSE 1 + NatLen(n \div 10)
IntLen(n) == IF n < 0 THEN 1 + NatLen(-n) ELSE NatLen(n)
\* the number of characters of String(x) for a float x: two decimals
FloatLen(x) ==
    IF x.nan THEN 3
    ELSE (IF x.v < 0 THEN 1 ELSE 0)
         + NatLen((IF x.v < 0 THEN -x.v ELSE x.v) \div 100) + 3

----------------------------------------------------------------------------
(* The real-time clock: DateTime fields of a unix time *)

SecondsPerDay == 24 * 3600
\* 2000-01-01 00:00:00, the first instant the RTC can hold
Epoch2000 == 10957 * SecondsPerDay

Hour(t) == (t \div 3600) % 24
Minute(t) == (t \div 60) % 60
Second(t) == t % 60
\* the wall-clock minute t lies in, counted from the epoch
MinuteOcc(t) == t \div 60

DaysSince2000(t) == (t - Epoch2000) \div SecondsPerDay
\* [y |-> years since 2000, d |-> day of that year from 0]
RECURSIVE YearOf(_, _)
YearOf(days, yOff) ==
    LET len == IF yOff % 4 = 0 THEN 366 ELSE 365
    IN  IF days < len THEN [y |-> yOff, d |-> days]
        ELSE YearOf(days - len, yOff + 1)
DaysInMonth(m, leap) ==
    IF m = 2 THEN (IF leap THEN 29 ELSE 28)
    ELSE IF m \in {4, 6, 9, 11} THEN 30 ELSE 31
RECURSIVE MonthOf(_, _, _)
MonthOf(days, m, leap) ==
    IF m >= 12 \/ days < DaysInMonth(m, leap) THEN [m |-> m, d |-> days + 1]
    ELSE MonthOf(days - DaysInMonth(m, leap), m + 1, leap)
DateOf(t) ==
    LET yd == YearOf(DaysSince2000(t), 0)
        md == MonthOf(yd.d, 1, yd.y % 4 = 0)
    IN  [year |-> 2000 + yd.y, month |-> md.m, day |-> md.d]
\* dayOfTheWeek(): 2000-01-01 was a Saturday (6)
DayOfTheWeek(t) == (DaysSince2000(t) + 6) % 7
\* a wall-clock instant: day counted from 2000-01-01
At(day, h, m, s) == Epoch2000 + day * SecondsPerDay + h * 3600 + m * 60 + s
\* what __DATE__ __TIME__ held when the firmware was built
CompileTime == At(59, 12, 0, 0)

----------------------------------------------------------------------------
(* The event log: newest entry first, each entry "HH:MM:SS " msg "\n".     *)
(* An entry keeps its message and the number of its characters still held: *)
(* substring(0, 1000) may cut the last entry short.                        *)

Msg(kind, dev, st, en, thr, hr, mn) ==
    [kind |-> kind, dev |-> dev, st |-> st, en |-> en, thr |-> thr,
     hr |-> hr, mn |-> mn]
PlainMsg(kind) == Msg(kind, sEmpty, sEmpty, FALSE, F(0), 0, 0)
EnabledLen(en) == IF en THEN 7 ELSE 8
MsgLen(m) ==
    CASE m.kind = "BMP280 init failed!" -> 19
      [] m.kind = "RTC init failed!" -> 16
      [] m.kind = "RTC time set to compile time." -> 29
      [] m.kind = "WiFi connected. IP: " -> 20 + 13
      [] m.kind = "Scheduled Fan ON" -> 16
      [] m.kind = " turned " -> Len(m.dev) + 8 + Len(m.st)
      [] m.kind = "Auto Fan: " ->
            10 + EnabledLen(m.en) + 13 + FloatLen(m.thr)
      [] m.kind = "Schedule: " ->
            10 + EnabledLen(m.en) + 8 + IntLen(m.hr) + 1 + IntLen(m.mn)

RECURSIVE LogLength(_)
LogLength(l) == IF l = <<>> THEN 0 ELSE Head(l).len + LogLength(Tail(l))

\* String::substring(0, n) of the log
RECURSIVE Substring(_, _)
Substring(l, n) ==
    IF l = <<>> \/ n <= 0 THEN <<>>
    ELSE IF Head(l).len <= n
         THEN <<Head(l)>> \o Substring(Tail(l), n - Head(l).len)
         ELSE <<[Head(l) EXCEPT !.len = n]>>

\* as addLog, without the cut at 1000 characters
addLog_unbounded(l, now, msg) ==
    <<[hh |-> Hour(now), mm |-> Minute(now), ss |-> Second(now),
       msg |-> msg, len |-> 9 + MsgLen(msg) + 1]>> \o l

addLog(l, now, msg) ==
    LET entry == [hh |-> Hour(now), mm |-> Minute(now), ss |-> Second(now),
                  msg |-> msg, len |-> 9 + MsgLen(msg) + 1]
        all == <<entry>> \o l
    IN  IF LogLength(all) > LOG_LIMIT THEN Substring(all, LOG_LIMIT) ELSE all

----------------------------------------------------------------------------
(* Actuators and display *)

\* as updateRelays, with the lamp's pin written from the light's flag
updateRelays_lampFromLight(fan, light, lamp) ==
    [fan |-> IF fan THEN LOW ELSE HIGH, light |-> IF light THEN LOW ELSE HIGH,
     lamp |-> IF light THEN LOW ELSE HIGH]

Level(on) == IF on THEN RELAY_ON ELSE (IF RELAY_ON = LOW THEN HIGH ELSE LOW)
updateRelays(fan, light, lamp) ==
    [fan |-> Level(fan), light |-> Level(light), lamp |-> Level(lamp)]

\* The 17 characters of line 1 and the 16 of line 2, as their fields.  buf1
\* is char[17]; the terminator sprintf writes after the 17 characters falls
\* past its end, on a byte the frame does not use.
updateLCD(now, t, p) ==
    LET h == IF Hour(now) % 12 = 0 THEN 12 ELSE Hour(now) % 12
        d == DateOf(now)
    IN  [line1 |-> [h |-> h, minute |-> Minute(now),
                    ampm |-> IF Hour(now) < 12 THEN "AM" ELSE "PM",
                    dow |-> DayOfTheWeek(now), day |-> d.day, month |-> d.month],
         line2 |-> [t |-> Round(t), p |-> Round(p)]]

----------------------------------------------------------------------------
(* The telemetry ring *)

ZeroEntry == [timestamp |-> 0, temp |-> F(0), press |-> F(0), heap |-> 0, rssi |-> 0]

\* as RingIdx, counting from the write index instead of the oldest sample
RingIdx_fromWriteIndex(i) == CRem(historyIndex + i + HISTORY_SIZE, HISTORY_SIZE)

\* as RingIdx, one slot further on
RingIdx_pastNewest(i) ==
    CRem(historyIndex - historyCount + i + 1 + HISTORY_SIZE, HISTORY_SIZE)

\* handleHistory / handleCsv: slot of the i-th oldest sample, i from 0
RingIdx(i) == CRem(historyIndex - historyCount + i + HISTORY_SIZE, HISTORY_SIZE)
\* the samples in the order the two loops visit them (slots are 0-based in
\* the code, 1-based in the sequence)
OrderedView == [i \in 1..historyCount |-> history[RingIdx(i - 1) + 1]]

----------------------------------------------------------------------------
\* a request: server.arg(name) is the empty string for an argument it lacks
Req(uri, device, state, type, enable, threshold, hour, minute) ==
    [uri |-> uri, device |-> device, state |-> state, type |-> type,
     enable |-> enable, threshold |-> threshold, hour |-> hour, minute |-> minute]
Get(uri) == Req(uri, sEmpty, sEmpty, sEmpty, sEmpty, sEmpty, sEmpty, sEmpty)

Init(start, reqs, steps) ==
    /\ pc = "boot"
    /\ fanOn = FALSE /\ lightOn = FALSE /\ lampOn = FALSE
    /\ autoFanEnabled = FALSE /\ tempThreshold = F(2500)
    /\ scheduleEnabled = FALSE /\ scheduleHour = 0 /\ scheduleMinute = 0
    /\ temp = F(0) /\ press = F(0) /\ heap = 0 /\ rssi = 0
    /\ logs = <<>> /\ lastMinute = -1 /\ lastUpdate = U32(0) /\ lastHistory = U32(0)
    /\ history = [i \in 1..HISTORY_SIZE |-> ZeroEntry]
    /\ historyIndex = 0 /\ historyCount = 0
    /\ pins = [fan |-> "unset", light |-> "unset", lamp |-> "unset"]
    /\ lcd = "blank"
    /\ request = Req("", sEmpty, sEmpty, sEmpty, sEmpty, sEmpty, sEmpty, sEmpty)
    /\ response = [code |-> 0, ctype |-> "", body |-> <<>>]
    /\ millis = U32(0) /\ rtc = start
    /\ newTemp = F(0) /\ newPress = F(0)
    /\ appended = <<>>
    /\ minuteObs = [occ |-> -1, anyQual |-> FALSE, allQual |-> TRUE, fires |-> 0]
    /\ elapsed = [upd |-> Span(0), hist |-> Span(0)]
    /\ reqLeft = reqs /\ stepsLeft = steps

\* setup(): drive the relays, report what failed to start, wait for WiFi
Setup(bmpOk, rtcOk, lostPower, wifiMs) ==
    /\ pc = "boot"
    /\ pc' = "loop"
    /\ pins' = updateRelays(fanOn, lightOn, lampOn)
    /\ LET l1 == IF bmpOk THEN logs
                 ELSE addLog(logs, rtc, PlainMsg("BMP280 init failed!"))
           l2 == IF rtcOk THEN l1
                 ELSE addLog(l1, rtc, PlainMsg("RTC init failed!"))
           now == IF lostPower THEN CompileTime ELSE rtc
           l3 == IF lostPower
                 THEN addLog(l2, now, PlainMsg("RTC time set to compile time."))
                 ELSE l2
       IN  /\ rtc' = now
           /\ logs' = addLog(l3, now, PlainMsg("WiFi connected. IP: "))
    /\ millis' = Add32(millis, U32(wifiMs))
    /\ elapsed' = [upd |-> SpanAdd(elapsed.upd, wifiMs),
                    hist |-> SpanAdd(elapsed.hist, wifiMs)]
    /\ UNCHANGED <<fanOn, lightOn, lampOn, autoFanEnabled, tempThreshold,
                   scheduleEnabled, scheduleHour, scheduleMinute, temp, press,
                   heap, rssi, lastMinute, lastUpdate, lastHistory, history,
                   historyIndex, historyCount, lcd, request, response, newTemp,
                   newPress, appended, minuteObs, reqLeft, stepsLeft>>

\* time passes between two passes of loop(): ms on the millisecond counter,
\* sec on the real-time clock
Elapse(ms, sec) ==
    /\ pc = "loop"
    /\ stepsLeft > 0
    /\ stepsLeft' = stepsLeft - 1
    /\ millis' = Add32(millis, U32(ms))
    /\ rtc' = rtc + sec
    /\ elapsed' = [upd |-> SpanAdd(elapsed.upd, ms),
                    hist |-> SpanAdd(elapsed.hist, ms)]
    /\ UNCHANGED <<pc, progVars, pins, lcd, request, response, newTemp,
                   newPress, appended, minuteObs, reqLeft>>

----------------------------------------------------------------------------
(* updateSensorsAndLogic() *)

\* as Filter, without the isnan test
Filter_unchecked(stored, reading) == reading

\* last-known-good filter: if (!isnan(x)) stored = x
Filter(stored, reading) == IF ~isnan(reading) THEN reading ELSE stored

\* as ScheduleFires, without the comparison with lastMinute
ScheduleFires_ignoresLastMinute(now) ==
    /\ scheduleEnabled
    /\ Hour(now) = scheduleHour
    /\ Minute(now) = scheduleMinute

\* the schedule rule's condition
ScheduleFires(now) ==
    /\ scheduleEnabled
    /\ Hour(now) = scheduleHour
    /\ Minute(now) = scheduleMinute
    /\ lastMinute # Minute(now)

\* as AutoFan, comparing with > instead of >=
AutoFan_strict(fan, t) ==
    IF autoFanEnabled
    THEN (IF FGe(t, tempThreshold) /\ t # tempThreshold THEN TRUE ELSE FALSE)
    ELSE fan
\* as AutoFan, without the test of autoFanEnabled
AutoFan_always(fan, t) == IF FGe(t, tempThreshold) THEN TRUE ELSE FALSE

\* as AutoFan, passed over on a tick where the schedule rule fires
AutoFan_scheduleWins(fan, t) ==
    IF autoFanEnabled /\ ~ScheduleFires(rtc)
    THEN (IF FGe(t, tempThreshold) THEN TRUE ELSE FALSE)
    ELSE fan

\* the automatic fan rule, applied to the fan state the schedule rule left
AutoFan(fan, t) ==
    IF autoFanEnabled THEN (IF FGe(t, tempThreshold) THEN TRUE ELSE FALSE)
    ELSE fan

\* as HistoryDue, testing the time loop() read before the tick began
HistoryDue_atTickStart(currentMillis) ==
    Ge32(Sub32(millis, lastHistory), U32(HISTORY_INTERVAL))

\* the history branch is taken when the deadline has passed
HistoryDue(currentMillis) ==
    Ge32(Sub32(currentMillis, lastHistory), U32(HISTORY_INTERVAL))

\* loop(): currentMillis - lastUpdate >= UPDATE_INTERVAL
TickDue == Ge32(Sub32(millis, lastUpdate), U32(UPDATE_INTERVAL))

\* loop(), when the update interval has elapsed: one tick.  tIn and pIn are
\* what the sensor returns (pIn in Pa), heapIn and rssiIn what the system
\* reports, dur the milliseconds the tick takes before it reads millis() again
\* (a tick that takes time counts as a time step of the exploration).
Tick(tIn, pIn, heapIn, rssiIn, dur) ==
    /\ pc = "loop"
    /\ TickDue
    /\ dur > 0 => stepsLeft > 0
    /\ stepsLeft' = IF dur > 0 THEN stepsLeft - 1 ELSE stepsLeft
    /\ LET t == Filter(temp, tIn)
           p == Filter(press, FDiv100(pIn))
           now == rtc
           fire == ScheduleFires(now)
           fan1 == IF fire THEN TRUE ELSE fanOn
           fan2 == AutoFan(fan1, t)
           currentMillis == Add32(millis, U32(dur))
           due == HistoryDue(currentMillis)
           sample == [timestamp |-> now, temp |-> t, press |-> p,
                      heap |-> heapIn, rssi |-> rssiIn]
           sameOcc == minuteObs.occ = MinuteOcc(now)
           qual == scheduleEnabled /\ Hour(now) = scheduleHour
                   /\ Minute(now) = scheduleMinute
       IN  /\ newTemp' = tIn
           /\ newPress' = FDiv100(pIn)
           /\ temp' = t
           /\ press' = p
           /\ heap' = heapIn
           /\ rssi' = rssiIn
           /\ logs' = IF fire THEN addLog(logs, rtc, PlainMsg("Scheduled Fan ON"))
                      ELSE logs
           /\ lastMinute' = IF fire THEN Minute(now) ELSE lastMinute
           /\ fanOn' = fan2
           /\ pins' = updateRelays(fan2, lightOn, lampOn)
           /\ lcd' = updateLCD(now, t, p)
           /\ history' = IF due THEN [history EXCEPT ![historyIndex + 1] = sample]
                         ELSE history
           /\ historyIndex' = IF due THEN CRem(historyIndex + 1, HISTORY_SIZE)
                              ELSE historyIndex
           /\ historyCount' = IF due /\ historyCount < HISTORY_SIZE
                              THEN historyCount + 1 ELSE historyCount
           /\ lastHistory' = IF due THEN currentMillis ELSE lastHistory
           /\ appended' = IF due THEN Append(appended, sample) ELSE appended
           /\ lastUpdate' = millis
           /\ millis' = currentMillis
           /\ rtc' = rtc + dur \div 1000
           /\ elapsed' = [upd |-> Span(dur),
                           hist |-> IF due THEN Span(0)
                                    ELSE SpanAdd(elapsed.hist, dur)]
           /\ minuteObs' =
                [occ |-> MinuteOcc(now),
                 anyQual |-> qual \/ (sameOcc /\ minuteObs.anyQual),
                 allQual |-> qual /\ (sameOcc => minuteObs.allQual),
                 fires |-> (IF sameOcc THEN minuteObs.fires ELSE 0)
                           + (IF fire THEN 1 ELSE 0)]
    /\ UNCHANGED <<pc, lightOn, lampOn, autoFanEnabled, tempThreshold,
                   scheduleEnabled, scheduleHour, scheduleMinute, request,
                   response, reqLeft>>

----------------------------------------------------------------------------
(* The request handlers, run by server.handleClient() *)

Served(req) ==
    /\ pc = "loop"
    /\ reqLeft > 0
    /\ reqLeft' = reqLeft - 1
    /\ request' = req

Send(code, ctype, body) == response' = [code |-> code, ctype |-> ctype, body |-> body]

handleRoot ==
    /\ Served(Get("/"))
    /\ Send(200, "text/html", "html")
    /\ UNCHANGED <<pc, progVars, pins, lcd, millis, rtc, newTemp, newPress,
                   appended, minuteObs, elapsed, stepsLeft>>

\* /data: the snapshot document
handleData ==
    /\ Served(Get("/data"))
    /\ LET h == IF Hour(rtc) % 12 = 0 THEN 12 ELSE Hour(rtc) % 12
           sec == Div1000(millis)
       IN  Send(200, "application/json",
                [time_str |-> <<h, Minute(rtc), IF Hour(rtc) < 12 THEN "AM" ELSE "PM">>,
                 temp |-> temp, press |-> press, heap |-> heap, rssi |-> rssi,
                 uptime |-> <<sec \div 86400, (sec % 86400) \div 3600,
                              (sec % 3600) \div 60, sec % 60>>,
                 logs |-> logs,
                 alert |-> [heap |-> heap < 20000, rssi |-> rssi < -80],
                 fanOn |-> fanOn, lightOn |-> lightOn, lampOn |-> lampOn,
                 autoEnabled |-> autoFanEnabled, threshold |-> tempThreshold,
                 scheduleEnabled |-> scheduleEnabled,
                 scheduleHour |-> scheduleHour, scheduleMinute |-> scheduleMinute])
    /\ UNCHANGED <<pc, progVars, pins, lcd, millis, rtc, newTemp, newPress,
                   appended, minuteObs, elapsed, stepsLeft>>

\* /history: the ordered view
handleHistory ==
    /\ Served(Get("/history"))
    /\ Send(200, "application/json", OrderedView)
    /\ UNCHANGED <<pc, progVars, pins, lcd, millis, rtc, newTemp, newPress,
                   appended, minuteObs, elapsed, stepsLeft>>

\* String(x, 1): one decimal, rounded half away from zero; the value in tenths
Tenths(x) == IF x.nan THEN NaN
             ELSE F(IF x.v >= 0 THEN (x.v + 5) \div 10 ELSE -((5 - x.v) \div 10))
CsvRow(e) ==
    LET d == DateOf(e.timestamp)
    IN  [time |-> <<d.year, d.month, d.day, Hour(e.timestamp),
                    Minute(e.timestamp), Second(e.timestamp)>>,
         temp |-> Tenths(e.temp), press |-> Tenths(e.press),
         heap |-> e.heap, rssi |-> e.rssi]
\* /csv: the header and one row per sample of the ordered view
handleCsv ==
    /\ Served(Get("/csv"))
    /\ Send(200, "text/csv",
            [header |-> "Timestamp,Temperature,Pressure,Heap,RSSI",
             rows |-> [i \in 1..historyCount |-> CsvRow(OrderedView[i])]])
    /\ UNCHANGED <<pc, progVars, pins, lcd, millis, rtc, newTemp, newPress,
                   appended, minuteObs, elapsed, stepsLeft>>

\* as Controlled, with the light branch assigning the lamp's flag
Controlled_lightSetsLamp(device, newState) ==
    IF device = sFan THEN [fan |-> newState, light |-> lightOn, lamp |-> lampOn]
    ELSE IF device = sLight THEN [fan |-> fanOn, light |-> lightOn, lamp |-> newState]
    ELSE IF device = sLamp THEN [fan |-> fanOn, light |-> lightOn, lamp |-> newState]
    ELSE [fan |-> fanOn, light |-> lightOn, lamp |-> lampOn]

\* handleControl's dispatch on the device name: the three flags afterwards
Controlled(device, newState) ==
    IF device = sFan THEN [fan |-> newState, light |-> lightOn, lamp |-> lampOn]
    ELSE IF device = sLight THEN [fan |-> fanOn, light |-> newState, lamp |-> lampOn]
    ELSE IF device = sLamp THEN [fan |-> fanOn, light |-> lightOn, lamp |-> newState]
    ELSE [fan |-> fanOn, light |-> lightOn, lamp |-> lampOn]

\* /control?device=..&state=..
handleControl(device, state) ==
    /\ Served(Req("/control", device, state, sEmpty, sEmpty, sEmpty, sEmpty, sEmpty))
    /\ LET newState == (state = sOn)
           act == Controlled(device, newState)
       IN  /\ fanOn' = act.fan
           /\ lightOn' = act.light
           /\ lampOn' = act.lamp
           /\ logs' = addLog(logs, rtc,
                             Msg(" turned ", device, state, FALSE, F(0), 0, 0))
           /\ pins' = updateRelays(act.fan, act.light, act.lamp)
    /\ Send(200, "text/plain", "OK")
    /\ UNCHANGED <<pc, autoFanEnabled, tempThreshold, scheduleEnabled,
                   scheduleHour, scheduleMinute, temp, press, heap, rssi,
                   lastMinute, lastUpdate, lastHistory, history, historyIndex,
                   historyCount, lcd, millis, rtc, newTemp, newPress, appended,
                   minuteObs, elapsed, stepsLeft>>

\* as AutoSetting, with the threshold left as it was
AutoSetting_keepsThreshold(enable, threshold) ==
    [enabled |-> enable = sTrue, threshold |-> tempThreshold]

\* handleSet's auto branch: the two values it stores
AutoSetting(enable, threshold) ==
    [enabled |-> enable = sTrue, threshold |-> toFloat(threshold)]

\* /set?type=auto&enable=..&threshold=..  and
\* /set?type=schedule&enable=..&hour=..&minute=..
\* (an argument the request does not carry reads as the empty string)
handleSet(type, enable, threshold, hour, minute) ==
    /\ Served(Req("/set", sEmpty, sEmpty, type, enable, threshold, hour, minute))
    /\ IF type = sAuto
       THEN /\ autoFanEnabled' = AutoSetting(enable, threshold).enabled
            /\ tempThreshold' = AutoSetting(enable, threshold).threshold
            /\ logs' = addLog(logs, rtc,
                              Msg("Auto Fan: ", sEmpty, sEmpty,
                                  AutoSetting(enable, threshold).enabled,
                                  AutoSetting(enable, threshold).threshold, 0, 0))
            /\ UNCHANGED <<scheduleEnabled, scheduleHour, scheduleMinute>>
       ELSE IF type = sSchedule
       THEN /\ scheduleEnabled' = (enable = sTrue)
            /\ scheduleHour' = toInt(hour)
            /\ scheduleMinute' = toInt(minute)
            /\ logs' = addLog(logs, rtc,
                              Msg("Schedule: ", sEmpty, sEmpty, enable = sTrue,
                                  F(0), toInt(hour), toInt(minute)))
            /\ UNCHANGED <<autoFanEnabled, tempThreshold>>
       ELSE UNCHANGED <<autoFanEnabled, tempThreshold, scheduleEnabled,
                        scheduleHour, scheduleMinute, logs>>
    /\ Send(200, "text/plain", "OK")
    /\ UNCHANGED <<pc, fanOn, lightOn, lampOn, temp, press, heap, rssi,
                   lastMinute, lastUpdate, lastHistory, history, historyIndex,
                   historyCount, pins, lcd, millis, rtc, newTemp, newPress,
                   appended, minuteObs, elapsed, stepsLeft>>

----------------------------------------------------------------------------
(* The environment's inputs *)

\* sensor readings: 24.90 and 25.00 degrees, 1013.25 hPa (in Pa), or no data
\* <<temperature, pressure>> as one poll returns them
AutoReadings == {<<F(2490), F(10132500)>>, <<F(2500), F(10132500)>>,
                 <<NaN, F(10132500)>>, <<F(2490), NaN>>}
Readings == {<<F(2490), F(10132500)>>, <<F(2500), F(10132500)>>, <<NaN, NaN>>}
Heaps == {30000}
Rssis == {-60}
\* a pass of time: <<milliseconds, seconds the RTC advances>>
Second1 == <<1000, 1>>
Minute1 == <<60000, 60>>
Hour1 == <<3600000, 3600>>
Day1 == <<86400000, 86400>>

Devices == {sFan, sLight, sLamp, <<"t", "v">>}
States == {sOn, sOff, sEmpty}
Enables == {sTrue, sFalse}
\* <<enable, threshold>> arguments: on at 25.0, on at nan, off at 25.0
AutoArgs == {<<sTrue, <<"2", "5", ".", "0">>>>, <<sTrue, <<"n", "a", "n">>>>,
             <<sFalse, <<"2", "5", ".", "0">>>>}
\* <<hour, minute>> arguments: 6:0, 24:0, 6:90, -1:abc
ScheduleArgs == {<<<<"6">>, <<"0">>>>, <<<<"2", "4">>, <<"0">>>>,
                 <<<<"6">>, <<"9", "0">>>>, <<<<"-", "1">>, <<"a", "b", "c">>>>}

\* setup()'s cases: <<the sensor started, the RTC started, the RTC lost power>>
SetupCases == {<<TRUE, TRUE, FALSE>>, <<FALSE, FALSE, TRUE>>}
Boot == \E c \in SetupCases : Setup(c[1], c[2], c[3], 500)

\* half a minute before 06:00
Start == At(60, 5, 59, 30)

----------------------------------------------------------------------------
(* Spec: every handler with well-formed and malformed arguments *)

Next ==
    \/ Boot
    \/ Elapse(Minute1[1], Minute1[2])
    \/ \E rd \in Readings, h \in Heaps, r \in Rssis : Tick(rd[1], rd[2], h, r, 0)
    \/ handleRoot
    \/ handleData
    \/ handleHistory
    \/ handleCsv
    \/ \E d \in Devices, st \in States : handleControl(d, st)
    \/ \E en \in Enables, hm \in ScheduleArgs :
          handleSet(sSchedule, en, sEmpty, hm[1], hm[2])
    \/ \E en \in Enables, th \in {<<"2", "5", ".", "0">>, sEmpty} :
          handleSet(sAuto, en, th, sEmpty, sEmpty)
    \/ handleSet(sEmpty, sEmpty, sEmpty, sEmpty, sEmpty)

Spec == Init(Start, MaxReq, MaxElapse) /\ [][Next]_vars

----------------------------------------------------------------------------
(* Steps and notions the properties speak of *)

\* a step of updateSensorsAndLogic (a tick is due only when millis differs
\* from lastUpdate, and sets lastUpdate to it)
TickStep == lastUpdate' # lastUpdate
\* a step of a request handler
RequestStep == reqLeft' # reqLeft
Ticked == lastUpdate # U32(0)

config == <<autoFanEnabled, tempThreshold, scheduleEnabled, scheduleHour,
            scheduleMinute>>

\* an argument that is a decimal integer and nothing else
IsIntArg(s) ==
    LET j == IF s # <<>> /\ s[1] \in {"-", "+"} THEN 2 ELSE 1
    IN  /\ j <= Len(s)
        /\ \A i \in j..Len(s) : IsDigit(s[i])
\* an argument that is a decimal number and nothing else
IsFloatArg(s) ==
    LET j == IF s # <<>> /\ s[1] \in {"-", "+"} THEN 2 ELSE 1
    IN  /\ j <= Len(s)
        /\ \A i \in j..Len(s) : IsDigit(s[i]) \/ s[i] = "."
        /\ Cardinality({i \in j..Len(s) : s[i] = "."}) <= 1
        /\ \E i \in j..Len(s) : IsDigit(s[i])
\* a /set request one of whose fields is missing, unparseable or out of range
InvalidSet(r) ==
    /\ r.uri = "/set"
    /\ \/ /\ r.type = sSchedule
          /\ \/ ~IsIntArg(r.hour) \/ toInt(r.hour) \notin 0..23
             \/ ~IsIntArg(r.minute) \/ toInt(r.minute) \notin 0..59
       \/ /\ r.type = sAuto
          /\ ~IsFloatArg(r.threshold)

----------------------------------------------------------------------------
(* Properties checked under Spec *)

\* C5: a /set command carrying an invalid field (out of range, negative,
\* unparseable or missing) leaves the automation configuration as it was.
C5_InvalidSetLeavesConfig ==
    [][(RequestStep /\ InvalidSet(request')) => config' = config]_vars

\* C6: in every state the stored schedule hour is in 0..23 and the stored
\* schedule minute is in 0..59.
C6_ScheduleInRange == scheduleHour \in 0..23 /\ scheduleMinute \in 0..59

\* C9: once setup has run, between any two operations the level last written
\* to each relay pin is the one that stands for its logical flag (RELAY_ON,
\* low, when the flag is on; high when it is off).
C9_PinsFollowFlags ==
    pc = "loop" =>
        /\ (pins.fan = RELAY_ON) = fanOn
        /\ (pins.light = RELAY_ON) = lightOn
        /\ (pins.lamp = RELAY_ON) = lampOn
        /\ \A d \in {"fan", "light", "lamp"} : pins[d] \in {LOW, HIGH}
\* a /control command turned the light on, a tick ran, and the pin is low
C9_Witness ==
    /\ request.uri = "/control" /\ request.device = sLight
    /\ lightOn /\ pins.light = LOW /\ pins.fan = HIGH
    /\ Ticked

\* C10: lightOn changes only in a step of a /control request naming the
\* light, and lampOn only in one naming the lamp; every tick, every /set
\* command and every other step leaves both as they were.
C10_LightLampOnlyByControl ==
    [][/\ (lightOn' # lightOn) =>
             RequestStep /\ request'.uri = "/control" /\ request'.device = sLight
       /\ (lampOn' # lampOn) =>
             RequestStep /\ request'.uri = "/control" /\ request'.device = sLamp
       /\ (TickStep \/ (RequestStep /\ request'.uri = "/set")) =>
             lightOn' = lightOn /\ lampOn' = lampOn]_vars
\* the lamp was switched on by a /control command after a tick had run
C10_Witness ==
    /\ request.uri = "/control" /\ request.device = sLamp
    /\ lampOn /\ ~lightOn
    /\ Ticked

----------------------------------------------------------------------------
(* SpecAuto: the fan rules - manual fan commands, the auto-threshold and   *)
(* schedule settings, readings on both sides of the threshold and missing  *)

NextAuto ==
    \/ Setup(TRUE, TRUE, FALSE, 500)
    \/ Elapse(Minute1[1], Minute1[2])
    \/ \E rd \in AutoReadings, h \in Heaps, r \in Rssis :
          Tick(rd[1], rd[2], h, r, 0)
    \/ \E st \in {sOn, sOff} : handleControl(sFan, st)
    \/ \E a \in AutoArgs : handleSet(sAuto, a[1], a[2], sEmpty, sEmpty)
    \/ handleSet(sSchedule, sTrue, sEmpty, <<"6">>, <<"0">>)

SpecAuto == Init(Start, AutoReq, AutoElapse) /\ [][NextAuto]_vars

\* C4: a tick that runs with auto mode on ends with the fan on exactly when
\* the stored temperature is at or above the threshold, whatever the fan
\* was before and whether or not the schedule rule fired in that tick.
C4_AutoDecidesFan ==
    [][(TickStep /\ autoFanEnabled) =>
          fanOn' = (~temp'.nan /\ ~tempThreshold.nan /\ temp'.v >= tempThreshold.v)]_vars
\* auto mode was switched on, then a tick fired the schedule, and the fan is
\* off because the temperature is 24.90 under a threshold of 25.00
C4_Witness ==
    /\ autoFanEnabled /\ ~fanOn /\ Ticked
    /\ temp = F(2490) /\ tempThreshold = F(2500)
    /\ Len(logs) >= 2
    /\ logs[1].msg.kind = "Scheduled Fan ON"
    /\ logs[2].msg.kind = "Auto Fan: "

\* C7: a tick whose temperature reading is not a number leaves the stored
\* temperature as it was, and likewise, separately, for the pressure; the
\* tick still completes: its fan decision, the levels it writes to the pins
\* and the sample it appends when the history deadline has passed use the
\* stored values.
C7_LastKnownGood ==
    [][TickStep =>
          /\ isnan(newTemp') => temp' = temp
          /\ isnan(newPress') => press' = press
          /\ ~isnan(temp') /\ ~isnan(press')
          /\ lastUpdate' = millis
          /\ autoFanEnabled =>
                fanOn' = (~tempThreshold.nan /\ temp'.v >= tempThreshold.v)
          /\ (pins'.fan = RELAY_ON) = fanOn'
          /\ Ge32(Sub32(millis', lastHistory), U32(HISTORY_INTERVAL)) =>
                /\ Len(appended') = Len(appended) + 1
                /\ appended'[Len(appended')].temp = temp'
                /\ appended'[Len(appended')].press = press'
                /\ history'[historyIndex + 1].temp = temp'
                /\ history'[historyIndex + 1].press = press']_vars
\* the last tick read no temperature but a pressure, kept the 24.90 of the
\* tick before it, and appended a sample holding 24.90
C7_Witness ==
    /\ Ticked /\ isnan(newTemp) /\ ~isnan(newPress)
    /\ temp = F(2490)
    /\ lastHistory = lastUpdate
    /\ appended # <<>>
    /\ appended[Len(appended)].temp = F(2490)

\* C8: with auto mode off, a tick never turns off a fan that is on: a fan
\* switched on by a manual command stays on through every later tick,
\* whatever the readings, the time and the schedule settings are.
C8_ManualFanPersists ==
    [][(TickStep /\ ~autoFanEnabled /\ fanOn) => fanOn']_vars
\* the fan was switched on by hand at 05:59, a tick ran in the minute after,
\* and the fan is still on with auto mode off
C8_Witness ==
    /\ request.uri = "/control" /\ request.device = sFan /\ request.state = sOn
    /\ fanOn /\ ~autoFanEnabled
    /\ logs # <<>> /\ logs[1].msg.kind = " turned " /\ logs[1].mm = 59
    /\ minuteObs.occ = MinuteOcc(Start) + 1
    /\ temp = F(2490)

----------------------------------------------------------------------------
(* SpecRing: the telemetry ring - enough minutes for the store to wrap,    *)
(* ticks that are and are not due for a history write, and the readers     *)

RingReadings == {<<F(2490), F(10132500)>>, <<F(2500), F(10132500)>>}

NextRing ==
    \/ Setup(TRUE, TRUE, FALSE, 500)
    \/ \E st \in {Second1, Minute1} : Elapse(st[1], st[2])
    \/ \E rd \in RingReadings, h \in Heaps, r \in Rssis, d \in {0} :
          Tick(rd[1], rd[2], h, r, d)
    \/ handleHistory
    \/ handleCsv
    \/ handleData

SpecRing == Init(Start, RingReq, RingElapse) /\ [][NextRing]_vars

\* the last k elements of a sequence
LastK(q, k) == SubSeq(q, Len(q) - k + 1, Len(q))
Min(a, b) == IF a < b THEN a ELSE b

RingOk ==
    /\ historyIndex \in 0..(HISTORY_SIZE - 1)
    /\ historyCount \in 0..HISTORY_SIZE
    /\ historyCount < HISTORY_SIZE => historyIndex = historyCount
    /\ \A i \in 0..(historyCount - 1) :
          /\ RingIdx(i) \in 0..(HISTORY_SIZE - 1)
          /\ RingIdx(i) < Len(appended)
          /\ \E k \in 1..Len(appended) : history[RingIdx(i) + 1] = appended[k]

\* C18: in every state 0 <= historyIndex < HISTORY_SIZE and
\* 0 <= historyCount <= HISTORY_SIZE, historyIndex = historyCount while the
\* store is not full, every index handleHistory and handleCsv compute for
\* 0 <= i < historyCount is in 0..HISTORY_SIZE-1 and names a written slot;
\* and no step decreases historyCount.
C18_RingIndexInvariant ==
    [][RingOk /\ RingOk' /\ historyCount' >= historyCount]_vars
\* the write index has wrapped to 1 with the store full, and /csv has read
\* HISTORY_SIZE rows through the computed indices
C18_Witness ==
    /\ historyCount = HISTORY_SIZE /\ historyIndex = 1
    /\ Len(appended) = HISTORY_SIZE + 1
    /\ request.uri = "/csv"
    /\ Len(response.body.rows) = HISTORY_SIZE
    /\ RingIdx(0) = 1 /\ RingIdx(HISTORY_SIZE - 1) = 0

\* Reading a CSV row back: the instant its "YYYY-MM-DD hh:mm:ss" names, and
\* the value a number printed with one decimal stands for
RECURSIVE DaysBeforeYear(_)
DaysBeforeYear(yOff) ==
    IF yOff = 0 THEN 0
    ELSE (IF (yOff - 1) % 4 = 0 THEN 366 ELSE 365) + DaysBeforeYear(yOff - 1)
RECURSIVE DaysBeforeMonth(_, _)
DaysBeforeMonth(m, leap) ==
    IF m = 1 THEN 0 ELSE DaysInMonth(m - 1, leap) + DaysBeforeMonth(m - 1, leap)
ParseTime(t) ==
    At(DaysBeforeYear(t[1] - 2000) + DaysBeforeMonth(t[2], (t[1] - 2000) % 4 = 0)
         + t[3] - 1, t[4], t[5], t[6])
ParseTenths(x) == IF x.nan THEN NaN ELSE F(10 * x.v)
ParseCsvRow(row) ==
    [timestamp |-> ParseTime(row.time), temp |-> ParseTenths(row.temp),
     press |-> ParseTenths(row.press), heap |-> row.heap, rssi |-> row.rssi]

\* /csv answers with the header and one row per stored sample, whose
\* timestamp, heap and rssi read back as those of the ordered view, in its order
CsvRowsInOrder ==
    [][(RequestStep /\ request'.uri = "/csv") =>
          /\ response'.body.header = "Timestamp,Temperature,Pressure,Heap,RSSI"
          /\ Len(response'.body.rows) = historyCount
          /\ \A i \in 1..historyCount :
                LET e == ParseCsvRow(response'.body.rows[i])
                IN  /\ e.timestamp = OrderedView[i].timestamp
                    /\ e.heap = OrderedView[i].heap
                    /\ e.rssi = OrderedView[i].rssi]_vars

\* C14: /csv answers with the fixed header and exactly historyCount rows
\* (none for an empty store), and reading the rows back gives the same
\* (timestamp, temperature, pressure, heap, rssi) tuples, oldest first, as
\* the ordered view /history serves.
C14_CsvRoundTrip ==
    [][(RequestStep /\ request'.uri = "/csv") =>
          /\ response'.body.header = "Timestamp,Temperature,Pressure,Heap,RSSI"
          /\ Len(response'.body.rows) = historyCount
          /\ \A i \in 1..historyCount :
                ParseCsvRow(response'.body.rows[i]) = OrderedView[i]]_vars

----------------------------------------------------------------------------
(* SpecSched: the schedule rule - the schedule set to 6:00 or 7:00, time   *)
(* passing by a second, a minute, an hour or a day                         *)

NextSched ==
    \/ Setup(TRUE, TRUE, FALSE, 500)
    \/ \E st \in {Second1, Minute1, Hour1, Day1} : Elapse(st[1], st[2])
    \/ \E h \in Heaps, r \in Rssis : Tick(F(2490), F(10132500), h, r, 0)
    \/ \E st \in {sOn, sOff} : handleControl(sFan, st)
    \/ \E en \in Enables, h \in {<<"6">>, <<"7">>} :
          handleSet(sSchedule, en, sEmpty, h, <<"0">>)

SpecSched == Init(Start, SchedReq, SchedElapse) /\ [][NextSched]_vars

\* The schedule rule never fires twice in one wall-clock minute.
AtMostOncePerMinute == minuteObs.fires <= 1

\* C2: when every tick so far of the current wall-clock minute ran with the
\* schedule enabled and set to that hour and minute, exactly one of them
\* emitted "Scheduled Fan ON", whatever commands came between them.
C2_OneFirePerMatchingRun ==
    (minuteObs.occ # -1 /\ minuteObs.allQual) => minuteObs.fires = 1

\* C3: in every occurrence of a wall-clock minute in which some tick ran
\* with the schedule enabled and set to that hour and minute, exactly one
\* tick fired the schedule rule - on a later day and after the schedule was
\* moved to another hour with the same minute as well.
C3_OneFirePerOccurrence ==
    (minuteObs.occ # -1 /\ minuteObs.anyQual) => minuteObs.fires = 1

----------------------------------------------------------------------------
(* SpecControl: /control commands, well-formed and malformed, after one    *)
(* another and around ticks                                                *)

\* state arguments: on, off, missing, and "ON"
ControlStates == States \cup {<<"O", "N">>}

NextControl ==
    \/ Setup(TRUE, TRUE, FALSE, 500)
    \/ Elapse(Minute1[1], Minute1[2])
    \/ \E h \in Heaps, r \in Rssis : Tick(F(2490), F(10132500), h, r, 0)
    \/ \E d \in Devices, st \in ControlStates : handleControl(d, st)

SpecControl == Init(Start, ControlReq, ControlElapse) /\ [][NextControl]_vars

\* a /control request whose state is not "on" or "off", or whose device is
\* not fan, light or lamp
MalformedControl(r) ==
    /\ r.uri = "/control"
    /\ \/ r.state \notin {sOn, sOff}
       \/ r.device \notin {sFan, sLight, sLamp}

\* C11: a /control command whose state argument is neither "on" nor "off",
\* or whose device argument is not fan, light or lamp, leaves fanOn, lightOn
\* and lampOn as they were.
C11_MalformedControlIgnored ==
    [][(RequestStep /\ MalformedControl(request')) =>
          <<fanOn, lightOn, lampOn>>' = <<fanOn, lightOn, lampOn>>]_vars

----------------------------------------------------------------------------
(* SpecOrder: commands between ticks, and snapshots after commands         *)

\* <<enable, threshold>> arguments: on at 24.5, on at 25.0, off at 24.5
OrderArgs == {<<sTrue, <<"2", "4", ".", "5">>>>, <<sTrue, <<"2", "5", ".", "0">>>>,
              <<sFalse, <<"2", "4", ".", "5">>>>}

NextOrder ==
    \/ Setup(TRUE, TRUE, FALSE, 500)
    \/ Elapse(Second1[1], Second1[2])
    \/ \E rd \in {<<F(2490), F(10132500)>>, <<NaN, NaN>>}, h \in Heaps, r \in Rssis :
          Tick(rd[1], rd[2], h, r, 0)
    \/ \E a \in OrderArgs : handleSet(sAuto, a[1], a[2], sEmpty, sEmpty)
    \/ handleSet(sSchedule, sTrue, sEmpty, <<"5">>, <<"5", "9">>)
    \/ \E d \in {sFan, sLight} : handleControl(d, sOn)
    \/ handleData

SpecOrder == Init(Start, OrderReq, OrderElapse) /\ [][NextOrder]_vars

\* the /data document shows the state the request found
SnapshotOfState(doc) ==
    /\ doc.fanOn = fanOn /\ doc.lightOn = lightOn /\ doc.lampOn = lampOn
    /\ doc.autoEnabled = autoFanEnabled /\ doc.threshold = tempThreshold
    /\ doc.scheduleEnabled = scheduleEnabled
    /\ doc.scheduleHour = scheduleHour /\ doc.scheduleMinute = scheduleMinute
    /\ doc.temp = temp /\ doc.press = press /\ doc.logs = logs

\* C12: the tick that follows a /set or /control command decides with all of
\* what the command stored (after /set type=auto enable=true threshold=T it
\* ends with fan = (temp >= T); after an enabled schedule for the current
\* hour and minute it fires; after /control it drives the commanded level),
\* and a /data snapshot taken after a command shows all of what the command
\* stored; every snapshot is the state of one instant.
C12_CommandSeenInFull ==
    [][/\ (TickStep /\ request.uri = "/set" /\ request.type = sAuto) =>
             IF request.enable = sTrue
             THEN fanOn' = FGe(temp', toFloat(request.threshold))
             ELSE fanOn' = (fanOn \/ ScheduleFires(rtc))
       /\ (TickStep /\ request.uri = "/set" /\ request.type = sSchedule
             /\ request.enable = sTrue /\ Hour(rtc) = toInt(request.hour)
             /\ Minute(rtc) = toInt(request.minute) /\ lastMinute # Minute(rtc)) =>
             /\ lastMinute' = Minute(rtc)
             /\ logs' # <<>> /\ logs'[1].msg.kind = "Scheduled Fan ON"
             /\ ~autoFanEnabled => fanOn'
       /\ (TickStep /\ request.uri = "/control") =>
             /\ request.device = sLight => (lightOn' /\ pins'.light = RELAY_ON)
             /\ (request.device = sFan /\ ~autoFanEnabled) =>
                   (fanOn' /\ pins'.fan = RELAY_ON)
       /\ (RequestStep /\ request'.uri = "/data") =>
             /\ SnapshotOfState(response'.body)
             /\ (request.uri = "/set" /\ request.type = sAuto) =>
                   /\ response'.body.autoEnabled = (request.enable = sTrue)
                   /\ response'.body.threshold = toFloat(request.threshold)
             /\ (request.uri = "/set" /\ request.type = sSchedule) =>
                   /\ response'.body.scheduleEnabled = (request.enable = sTrue)
                   /\ response'.body.scheduleHour = toInt(request.hour)
                   /\ response'.body.scheduleMinute = toInt(request.minute)
             /\ (request.uri = "/control" /\ request.device = sLight) =>
                   response'.body.lightOn = (request.state = sOn)]_vars
\* auto mode was switched on at 24.5 a second after the start, the tick of
\* the second after that read 24.90 and switched the fan on, and /data then
\* showed the setting, the temperature and the fan
C12_Witness ==
    /\ request.uri = "/data"
    /\ response.body.autoEnabled /\ response.body.threshold = F(2450)
    /\ response.body.fanOn /\ response.body.temp = F(2490)
    /\ Len(logs) = 2 /\ logs[1].msg.kind = "Auto Fan: "
    /\ logs[1].ss = Second(Start) + 1
    /\ Second(rtc) = Second(Start) + 2
    /\ lastUpdate = millis

----------------------------------------------------------------------------
(* SpecTimers: the two interval timers - ticks that start late and ticks   *)
(* that take long, around the history deadline                             *)

Seconds59 == <<59000, 59>>
\* the milliseconds a tick takes from loop()'s reading of millis() to the
\* reading of the history branch
TickDurations == {0, 1500}

NextTimers ==
    \/ Setup(TRUE, TRUE, FALSE, 500)
    \/ \E st \in {Second1, Seconds59, Minute1} : Elapse(st[1], st[2])
    \/ \E h \in Heaps, r \in Rssis, d \in TickDurations :
          Tick(F(2490), F(10132500), h, r, d)
    \/ handleHistory

SpecTimers == Init(Start, TimerReq, TimerElapse) /\ [][NextTimers]_vars

\* the time really passed since the last history write (or since the start,
\* before the first one) when the tick of this step tests the deadline
SinceHistoryAtTest ==
    SpanAdd(elapsed.hist, 1000 * elapsed'.upd.s + elapsed'.upd.ms)

\* C13: a tick whose deadline test runs at least HISTORY_INTERVAL ms after
\* the previous history write appends exactly one sample and restarts the
\* deadline from that instant, however late the tick started and however
\* long it took; a tick whose test runs earlier appends nothing.
C13_HistoryOnDeadline ==
    [][TickStep =>
          IF SpanAtLeast(SinceHistoryAtTest, HISTORY_INTERVAL)
          THEN /\ Len(appended') = Len(appended) + 1
               /\ historyCount' = Min(historyCount + 1, HISTORY_SIZE)
               /\ history'[historyIndex + 1] = appended'[Len(appended')]
               /\ lastHistory' = millis'
          ELSE /\ appended' = appended
               /\ history' = history /\ historyCount' = historyCount
               /\ lastHistory' = lastHistory]_vars
\* a tick started 59 s after the first history write, took 1.5 s, and
\* appended the second sample 60.5 s after the first write
C13_Witness ==
    /\ Len(appended) = 2
    /\ appended[2].timestamp = appended[1].timestamp + 59
    /\ elapsed.upd = Span(1500) /\ elapsed.hist = Span(0)
    /\ Sub32(millis, lastUpdate) = U32(1500)
    /\ lastHistory = millis

----------------------------------------------------------------------------
(* SpecWrap: the millisecond counter running past 2^32                     *)

\* 2^31 - 23648 ms, close to 24 days 20 hours
HalfWrap == <<2147460000, 2147460>>

NextWrap ==
    \/ Setup(TRUE, TRUE, FALSE, 500)
    \/ \E st \in {Second1, Seconds59, Minute1, HalfWrap} : Elapse(st[1], st[2])
    \/ \E h \in Heaps, r \in Rssis, d \in TickDurations :
          Tick(F(2490), F(10132500), h, r, d)
    \/ handleData

SpecWrap == Init(Start, WrapReq, WrapElapse) /\ [][NextWrap]_vars

\* C19: whenever less than 2^32 ms have really passed since lastUpdate was
\* assigned, loop()'s test (millis - lastUpdate >= UPDATE_INTERVAL), computed
\* modulo 2^32, is true exactly when at least UPDATE_INTERVAL ms have
\* passed, and likewise the history test against lastHistory and
\* HISTORY_INTERVAL - also when millis has wrapped to a value below
\* lastUpdate or lastHistory.
C19_TimersSurviveWrap ==
    pc = "loop" =>
        /\ SpanBelowWrap(elapsed.upd) =>
              (TickDue <=> SpanAtLeast(elapsed.upd, UPDATE_INTERVAL))
        /\ SpanBelowWrap(elapsed.hist) =>
              (HistoryDue(millis) <=> SpanAtLeast(elapsed.hist, HISTORY_INTERVAL))
\* the counter has wrapped: a history write was made before the wrap, 59 s
\* later millis is below lastHistory and lastUpdate, the tick is due and the
\* history write is not
C19_Witness ==
    /\ pc = "loop"
    /\ ~Ge32(millis, lastHistory) /\ ~Ge32(millis, lastUpdate)
    /\ elapsed.hist = Span(59000) /\ elapsed.upd = Span(59000)
    /\ TickDue /\ ~HistoryDue(millis)
    /\ appended # <<>>

----------------------------------------------------------------------------
(* SpecPrec: the schedule rule and the auto rule in one tick - a schedule  *)
(* at 6:00, auto mode switched on and off, ticks within the minute         *)

NextPrec ==
    \/ Setup(TRUE, TRUE, FALSE, 500)
    \/ \E st \in {Second1, Minute1} : Elapse(st[1], st[2])
    \/ \E rd \in RingReadings, h \in Heaps, r \in Rssis : Tick(rd[1], rd[2], h, r, 0)
    \/ handleSet(sSchedule, sTrue, sEmpty, <<"6">>, <<"0">>)
    \/ \E en \in Enables : handleSet(sAuto, en, <<"2", "5", ".", "0">>, sEmpty, sEmpty)

SpecPrec == Init(Start, PrecReq, PrecElapse) /\ [][NextPrec]_vars

\* C15: on a tick where the schedule rule's condition holds while auto mode
\* is on and the temperature is below the threshold, the fan ends off, yet
\* "Scheduled Fan ON" is logged and lastMinute is set to the current minute;
\* and once a tick of the current minute has fired, no later tick of that
\* minute fires again - with auto mode then off, the fan stays as it is.
C15_AutoOverridesScheduleFire ==
    [][TickStep =>
          /\ (/\ scheduleEnabled /\ Hour(rtc) = scheduleHour
              /\ Minute(rtc) = scheduleMinute /\ lastMinute # Minute(rtc)
              /\ autoFanEnabled /\ ~FGe(temp', tempThreshold)) =>
                /\ ~fanOn' /\ pins'.fan # RELAY_ON
                /\ Len(logs') = Len(logs) + 1
                /\ logs'[1].msg.kind = "Scheduled Fan ON"
                /\ lastMinute' = Minute(rtc)
          /\ (minuteObs.occ = MinuteOcc(rtc) /\ minuteObs.fires >= 1) =>
                /\ logs' = logs /\ lastMinute' = lastMinute
                /\ ~autoFanEnabled => fanOn' = fanOn]_vars
\* the schedule fired at 06:00:30 under auto mode at 24.90 < 25.00, leaving
\* the fan off; auto mode was then switched off, and the tick at 06:00:31
\* did not fire again: the fan is still off
C15_Witness ==
    /\ ~fanOn /\ ~autoFanEnabled /\ scheduleEnabled
    /\ Hour(rtc) = scheduleHour /\ Minute(rtc) = scheduleMinute
    /\ lastMinute = Minute(rtc)
    /\ minuteObs.occ = MinuteOcc(rtc) /\ minuteObs.fires = 1
    /\ Len(logs) >= 3
    /\ logs[1].msg.kind = "Auto Fan: " /\ ~logs[1].msg.en
    /\ logs[2].msg.kind = "Scheduled Fan ON"
    /\ logs[3].msg.kind = "Auto Fan: " /\ logs[3].msg.en
    /\ logs[1].ss < Second(rtc)
    /\ lastUpdate = millis

----------------------------------------------------------------------------
(* SpecLog: the event log filling past its limit - entries from setup,     *)
(* /control (also with a long device argument), /set and a schedule fire   *)

\* a device argument of 450 characters
LongName == [i \in 1..450 |-> "x"]

NextLog ==
    \/ Boot
    \/ Elapse(Second1[1], Second1[2])
    \/ \E h \in Heaps, r \in Rssis : Tick(F(2490), F(10132500), h, r, 0)
    \/ \E d \in {sLamp, LongName} : handleControl(d, sOn)
    \/ handleSet(sSchedule, sTrue, sEmpty, <<"5">>, <<"5", "9">>)
    \/ handleSet(sAuto, sFalse, <<"2", "5", ".", "0">>, sEmpty, sEmpty)

SpecLog == Init(Start, LogReq, LogElapse) /\ [][NextLog]_vars

\* the characters of a are the first characters of b: the same entries in
\* the same order, the last one possibly cut short
IsCharPrefix(a, b) ==
    /\ Len(a) <= Len(b)
    /\ \A i \in 1..Len(a) :
          /\ a[i].len > 0
          /\ IF i < Len(a) THEN a[i] = b[i]
             ELSE a[i].len <= b[i].len /\ a[i] = [b[i] EXCEPT !.len = a[i].len]

\* C17: after every addLog call the log is at most 1000 characters long, the
\* entry just added is at its front, stamped with the current time, and what
\* follows it is the previous log from its first character on, less only
\* the characters at its end that no longer fit.
C17_LogBoundedNewestFirst ==
    [][(logs' # logs) =>
          /\ LogLength(logs') <= LOG_LIMIT
          /\ logs' # <<>>
          /\ logs'[1].hh = Hour(rtc') /\ logs'[1].mm = Minute(rtc')
          /\ logs'[1].ss = Second(rtc')
          /\ IF pc = "boot"
             THEN /\ logs'[1].msg.kind = "WiFi connected. IP: "
                  /\ \A i \in 1..Len(logs') : logs'[i].len = 10 + MsgLen(logs'[i].msg)
             ELSE /\ LogLength(logs')
                       = Min(LOG_LIMIT, 10 + MsgLen(logs'[1].msg) + LogLength(logs))
                  /\ logs'[1].len = Min(LOG_LIMIT, 10 + MsgLen(logs'[1].msg))
                  /\ IsCharPrefix(Tail(logs'), logs)
                  /\ TickStep => logs'[1].msg.kind = "Scheduled Fan ON"
                  /\ (RequestStep /\ request'.uri = "/control") =>
                        /\ logs'[1].msg.kind = " turned "
                        /\ logs'[1].msg.dev = request'.device
                        /\ logs'[1].msg.st = request'.state
                  /\ (RequestStep /\ request'.uri = "/set") =>
                        logs'[1].msg.kind
                           = IF request'.type = sAuto THEN "Auto Fan: " ELSE "Schedule: "]_vars
\* the log holds exactly 1000 characters: a /control entry was added at the
\* front and the oldest entry, the one setup wrote, is cut short
C17_Witness ==
    /\ LogLength(logs) = LOG_LIMIT
    /\ Len(logs) >= 3
    /\ logs[1].msg.kind = " turned " /\ logs[1].len = 10 + MsgLen(logs[1].msg)
    /\ logs[Len(logs)].msg.kind = "WiFi connected. IP: "
    /\ logs[Len(logs)].len < 10 + MsgLen(logs[Len(logs)].msg)

----------------------------------------------------------------------------
(* SpecSticky: ticks with auto mode off - the schedule on or off at 6:00,  *)
(* the fan switched by hand, ticks before, in and after the minute         *)

NextSticky ==
    \/ Setup(TRUE, TRUE, FALSE, 500)
    \/ \E st \in {Second1, Minute1} : Elapse(st[1], st[2])
    \/ \E h \in Heaps, r \in Rssis : Tick(F(2490), F(10132500), h, r, 0)
    \/ \E st \in {sOn, sOff} : handleControl(sFan, st)
    \/ \E en \in Enables : handleSet(sSchedule, en, sEmpty, <<"6">>, <<"0">>)

SpecSticky == Init(Start, StickyReq, StickyElapse) /\ [][NextSticky]_vars

\* C16: a tick that runs with auto mode off and the schedule rule not firing
\* (schedule disabled, hour or minute not the current one, or lastMinute
\* equal to the current minute) leaves the fan as it was, on or off; with
\* auto mode off a tick changes the fan only from off to on, and only when
\* the schedule rule fires.
C16_StickyFan ==
    [][(TickStep /\ ~autoFanEnabled) =>
          LET fires == /\ scheduleEnabled /\ Hour(rtc) = scheduleHour
                       /\ Minute(rtc) = scheduleMinute
                       /\ lastMinute # Minute(rtc)
          IN  /\ ~fires => (fanOn' = fanOn /\ logs' = logs)
              /\ fires => fanOn'
              /\ (fanOn' # fanOn) => (fires /\ ~fanOn /\ fanOn')]_vars
\* the schedule fired at 06:00:30, the fan was then switched off by hand,
\* and the tick at 06:00:31, with the schedule still matching, left it off
C16_Witness ==
    /\ ~fanOn /\ ~autoFanEnabled /\ scheduleEnabled
    /\ Hour(rtc) = scheduleHour /\ Minute(rtc) = scheduleMinute
    /\ lastMinute = Minute(rtc)
    /\ Len(logs) >= 2
    /\ logs[1].msg.kind = " turned " /\ logs[1].msg.st = sOff
    /\ logs[2].msg.kind = "Scheduled Fan ON"
    /\ logs[1].ss < Second(rtc)
    /\ lastUpdate = millis

============================================================================
